---- MODULE Spec2Model ----
(***************************************************************************)
(* Session / scenario orchestration of social-storm: the API trigger, the  *)
(* Session worker (SessionWorker.processSession with SessionRunner), the   *)
(* Scenario worker (ScenarioExecutor.executeScenario), the two BullMQ      *)
(* queues, SessionService and ProfileManager, for one social account with  *)
(* a history of earlier sessions and one trigger request.  Time is counted *)
(* in whole minutes.  ScenarioService (createScenario, updateScenario,     *)
(* validateInteractionFlow) and the step loop of executeScenario with      *)
(* getStepTarget and recordInteraction have specifications of their own.   *)
(***************************************************************************)
EXTENDS Integers, Sequences, FiniteSets, TLC

\* ---------------------------------------------------------------- bounds
MaxPrior == 3           \* sessions the account completed earlier on day 0
MaxDay == 1             \* calendar days after day 0
MaxProfiles == 2        \* GoLogin profiles the external service will create
NumScenarios == 2       \* scenarios stored for the account's platform
MaxQueueDelay == 8      \* minutes a Session job may wait before an attempt
MaxFlowLen == 3         \* steps of an interaction flow, and the largest step number
MaxPosts == 1           \* posts a search returns

\* ------------------------------------------------------ program constants
MAX_SESSIONS_PER_DAY == 3
MIN_SESSION_DURATION == 8       \* minutes (8 * 60 * 1000 ms)
MAX_SESSION_DURATION == 15      \* minutes (15 * 60 * 1000 ms)
attempts == 3                   \* defaultJobOptions.attempts
maxStalledCount == 1            \* worker option

AgeCap == MAX_SESSION_DURATION + 2   \* elapsed minutes are counted up to here

Min2(a, b) == IF a < b THEN a ELSE b

VARIABLES
    gologinToken,   \* process.env.GOLOGIN_TOKEN is set
    today,          \* CURRENT_DATE
    sessions,       \* table sessions: row id = index
    profiles,       \* table gologin_profiles of the account: row id = index = creation order
    usedOrder,      \* profile ids by last_used_at, most recent first (absent = NULL)
    sessionQueue,   \* jobs of queue session-execution
    scenarioQueue,  \* jobs of queue scenario-execution
    api,            \* the trigger route's request in progress
    w,              \* the Session worker's processor invocation
    x,              \* the Scenario worker's processor invocation
    lastGet,        \* the last getValidProfileForUser call: what it saw and returned
    lastAttempt,    \* how the last Session job attempt ended
    scenarios,      \* table scenarios: interaction_flow_json of each row
    req,            \* the createScenario / updateScenario call in progress
    run,            \* the step interpreter's state in executeScenario (this.stepResults, loop position)
    interactions    \* table interactions

vars == <<gologinToken, today, sessions, profiles, usedOrder, sessionQueue,
          scenarioQueue, api, w, x, lastGet, lastAttempt,
          scenarios, req, run, interactions>>

\* what the trigger route and the Session worker never touch
flowVars == <<scenarios, req, run, interactions>>

\* ------------------------------------------------------------ SessionService

\* INSERT INTO sessions (..., started_at, status, actions_count) VALUES (..., NOW(), 'running', 0)
NewSession(d) ==
    [day |-> d, status |-> "running", actions |-> 0, age |-> 0, duration |-> -1]

\* SELECT COUNT(*) ... DATE(started_at) = CURRENT_DATE AND status IN ('running','completed')
\* a session an earlier Session job completed
PriorSession ==
    [day |-> 0, status |-> "completed", actions |-> 0,
     age |-> MAX_SESSION_DURATION, duration |-> MAX_SESSION_DURATION]

CountToday(ss, d) ==
    Cardinality({i \in DOMAIN ss :
        ss[i].day = d /\ ss[i].status \in {"running", "completed"}})

LimitReachedOffByOne(ss, d) == CountToday(ss, d) > MAX_SESSIONS_PER_DAY

\* checkDailyLimit throws
LimitReached(ss, d) == CountToday(ss, d) >= MAX_SESSIONS_PER_DAY

\* updateSessionStatus(sessionId, status, new Date()): UPDATE sessions SET status, ended_at, duration
endSession(ss, sid, st) ==
    [ss EXCEPT ![sid].status = st, ![sid].duration = ss[sid].age]

\* a duration check whose upper limit is exclusive
checkSessionDurationExclusive(ss, sid) ==
    [isValid |-> ss[sid].age >= MIN_SESSION_DURATION /\ ss[sid].age < MAX_SESSION_DURATION,
     currentDuration |-> ss[sid].age,
     minDuration |-> MIN_SESSION_DURATION,
     maxDuration |-> MAX_SESSION_DURATION]

\* checkSessionDuration(sessionId)
checkSessionDuration(ss, sid) ==
    [isValid |-> ss[sid].age >= MIN_SESSION_DURATION /\ ss[sid].age <= MAX_SESSION_DURATION,
     currentDuration |-> ss[sid].age,
     minDuration |-> MIN_SESSION_DURATION,
     maxDuration |-> MAX_SESSION_DURATION]

\* ------------------------------------------------------------------- queues

NewJob(sid, scenario) ==
    [id |-> sid, sid |-> sid, scenario |-> scenario, state |-> "waiting",
     attemptsMade |-> 0, stalled |-> 0, runs |-> 0]

\* Queue.add with a jobId: a job whose id is already in the queue is not added
QueueAdd(q, job) ==
    IF \E i \in DOMAIN q : q[i].id = job.id THEN q ELSE Append(q, job)

addSessionJob(q, sid) == QueueAdd(q, NewJob(sid, 0))

addScenarioJob(q, sid, scenario) == QueueAdd(q, NewJob(sid, scenario))

Waiting(q) == {i \in DOMAIN q : q[i].state = "waiting"}

JobIndex(q, sid) == CHOOSE i \in DOMAIN q : q[i].id = sid

\* the worker takes the job: it becomes active and the processor is invoked
JobTaken(q, i) ==
    [q EXCEPT ![i].state = "active", ![i].runs = q[i].runs + 1]

\* the processor returned
JobReturned(q, i) == [q EXCEPT ![i].state = "completed"]

JobThrewOffByOne(q, i) ==
    [q EXCEPT ![i].attemptsMade = q[i].attemptsMade + 1,
              ![i].state = IF q[i].attemptsMade + 1 <= attempts THEN "waiting" ELSE "failed"]

\* the processor threw: retried (after backoff) while attempts remain, else failed
JobThrew(q, i) ==
    [q EXCEPT ![i].attemptsMade = q[i].attemptsMade + 1,
              ![i].state = IF q[i].attemptsMade + 1 < attempts THEN "waiting" ELSE "failed"]

\* the job's lock expired (stalledInterval): moved back to wait once, then failed
JobStalled(q, i) ==
    [q EXCEPT ![i].stalled = q[i].stalled + 1,
              ![i].state = IF q[i].stalled + 1 > maxStalledCount THEN "failed" ELSE "waiting"]

\* started_at of the sessions a Session job still refers to moves into the past
LiveSessions(q) == {q[i].sid : i \in {j \in DOMAIN q : q[j].state \in {"waiting", "active"}}}

Elapse(ss, q, d) ==
    [i \in DOMAIN ss |->
        IF i \in LiveSessions(q) THEN [ss[i] EXCEPT !.age = Min2(ss[i].age + d, AgeCap)]
        ELSE ss[i]]

\* ------------------------------------------------------------ ProfileManager

ActiveIds(ps) == {i \in DOMAIN ps : ps[i].status = "ACTIVE"}

markProfileAsExpired(ps, p) == [ps EXCEPT ![p].status = "EXPIRED"]

markProfileAsBanned(ps, p) == [ps EXCEPT ![p].status = "BANNED"]

updateLastUsed(order, p) == <<p>> \o SelectSeq(order, LAMBDA k : k # p)

Returned(ps, p) ==
    [profiles |-> ps, ret |-> p, retStatus |-> ps[p].status, threw |-> FALSE]

Threw(ps) == [profiles |-> ps, ret |-> 0, retStatus |-> "none", threw |-> TRUE]

\* an ensureProfileForUser that sets the latest record ACTIVE again instead of
\* creating a record
ensureProfileReactivates(ps) ==
    IF ActiveIds(ps) # {}
    THEN {Returned(ps, p) : p \in ActiveIds(ps)}
    ELSE IF Len(ps) > 0
    THEN {Returned([ps EXCEPT ![Len(ps)].status = "ACTIVE"], Len(ps))}
    ELSE {Threw(ps), Returned(<<[status |-> "ACTIVE"]>>, 1)}

\* ensureProfileForUser: the outcomes of one call (goLogin.create may throw)
ensureProfileForUser(ps) ==
    IF ActiveIds(ps) # {}
    THEN {Returned(ps, p) : p \in ActiveIds(ps)}
    ELSE {Threw(ps)} \cup
         (IF Len(ps) < MaxProfiles
          THEN {Returned(Append(ps, [status |-> "ACTIVE"]), Len(ps) + 1)}
          ELSE {})

getValidProfileNoBanCheck(ps) ==
    IF Len(ps) > 0 THEN {Returned(ps, Len(ps))} ELSE ensureProfileForUser(ps)

\* a getValidProfileForUser that replaces a record GoLogin does not know without
\* marking it EXPIRED
getValidProfileKeepsActive(ps) ==
    IF Len(ps) > 0
    THEN LET latest == Len(ps)
             st == ps[latest].status
         IN  IF st \in {"BANNED", "DELETED"}
             THEN ensureProfileForUser(ps)
             ELSE {Returned(ps, latest)} \cup
                  (IF st = "ACTIVE" /\ Len(ps) < MaxProfiles
                   THEN {Returned(Append(ps, [status |-> "ACTIVE"]), Len(ps) + 1)}
                   ELSE {})
    ELSE ensureProfileForUser(ps)

\* getValidProfileForUser: the outcomes of one call (the GoLogin probe answers
\* found, "not found", or another error)
getValidProfileForUser(ps) ==
    IF Len(ps) > 0
    THEN LET latest == Len(ps)
             st == ps[latest].status
         IN  IF st \in {"BANNED", "DELETED"}
             THEN ensureProfileForUser(ps)
             ELSE {Returned(ps, latest)} \cup
                  (IF st = "ACTIVE"
                   THEN ensureProfileForUser(markProfileAsExpired(ps, latest))
                   ELSE {})
    ELSE ensureProfileForUser(ps)

\* what lastGet keeps of a call
GetRecord(ps, o) ==
    [latest |-> Len(ps),
     latestStatus |-> IF Len(ps) > 0 THEN ps[Len(ps)].status ELSE "none",
     ret |-> o.ret, retStatus |-> o.retStatus, threw |-> o.threw]

\* SELECT ... WHERE status = 'ACTIVE' ORDER BY last_used_at DESC NULLS LAST, created_at DESC LIMIT 1
Max(S) == CHOOSE m \in S : \A k \in S : k <= m

selectActiveProfile(ps, order) ==
    LET used == {k \in DOMAIN order : order[k] \in ActiveIds(ps)}
    IN  IF ActiveIds(ps) = {} THEN 0
        ELSE IF used # {} THEN order[CHOOSE k \in used : \A j \in used : k <= j]
        ELSE Max(ActiveIds(ps))

\* ban indicators in the lower-cased error message
banIndicator(e) == e = "suspended"

\* ------------------------------------------------------------ ScenarioService

\* step.target: absent, a reference "search_results[i]" / "comments[i]", or any other string
NoTarget == [kind |-> "none", index |-> 0]

Ref(kind, i) == [kind |-> kind, index |-> i]

\* z.enum(['search', 'like', 'comment', 'reply', 'report'])
ActionEnum == {"search", "like", "comment", "reply", "report"}

\* an InteractionFlowStep; query and entity_type record whether the field is present
Step(n, action, query, target, entity, gen) ==
    [step |-> n, action |-> action, query |-> query, target |-> target,
     entity_type |-> entity, generate_comment |-> gen]

\* the steps a request may carry, before a step number is given
StepShapes ==
    { Step(0, "search", TRUE, NoTarget, FALSE, FALSE),
      Step(0, "search", FALSE, NoTarget, FALSE, FALSE),
      Step(0, "like", FALSE, Ref("search_results", 0), FALSE, FALSE),
      Step(0, "like", FALSE, NoTarget, TRUE, FALSE),
      Step(0, "like", FALSE, NoTarget, FALSE, FALSE),
      Step(0, "comment", FALSE, Ref("search_results", 0), FALSE, TRUE),
      Step(0, "comment", FALSE, Ref("search_results", 0), FALSE, FALSE),
      Step(0, "reply", FALSE, Ref("search_results", 0), TRUE, TRUE),
      Step(0, "reply", FALSE, Ref("comments", 0), FALSE, TRUE),
      Step(0, "report", FALSE, Ref("search_results", 0), FALSE, FALSE) }

Steps == {[sh EXCEPT !.step = n] : sh \in StepShapes, n \in 1..MaxFlowLen}

\* the flows of n steps
FlowsOfLen(n) == [1..n -> Steps]

\* InteractionFlowSchema.parse(flow)
SchemaOk(flow) ==
    \A i \in DOMAIN flow : flow[i].step >= 1 /\ flow[i].action \in ActionEnum

\* a numbering check that only looks at the first sorted step number
StepSequenceStartsAtOne(flow) ==
    LET steps == SortSeq([i \in DOMAIN flow |-> flow[i].step], LAMBDA a, b : a < b)
    IN  Len(steps) = 0 \/ steps[1] = 1

\* steps = flow.map(s => s.step).sort(); steps[i] !== i + 1 throws
StepSequenceOk(flow) ==
    LET steps == SortSeq([i \in DOMAIN flow |-> flow[i].step], LAMBDA a, b : a < b)
    IN  \A i \in DOMAIN steps : steps[i] = i

\* dependency checks that do not look at a reply's entity type
DependenciesOkNoReply(flow) ==
    \A i \in DOMAIN flow :
        LET step == flow[i]
        IN  /\ step.action = "search" => step.query
            /\ step.action \in {"like", "comment", "reply", "report"}
                 => (step.target # NoTarget \/ step.entity_type)

\* the per-step dependency checks
DependenciesOk(flow) ==
    \A i \in DOMAIN flow :
        LET step == flow[i]
        IN  /\ step.action = "search" => step.query
            /\ step.action \in {"like", "comment", "reply", "report"}
                 => (step.target # NoTarget \/ step.entity_type)
            /\ step.action = "reply" => step.entity_type

\* validateInteractionFlow returns (TRUE) or throws (FALSE)
validateInteractionFlow(flow) ==
    SchemaOk(flow) /\ StepSequenceOk(flow) /\ DependenciesOk(flow)

\* a stored scenario every trigger can rely on: one search step
DefaultFlow == <<Step(1, "search", TRUE, NoTarget, FALSE, FALSE)>>

NoReq == [op |-> "none", id |-> 0, hasFlow |-> FALSE, flow |-> <<>>, result |-> "none"]

\* ------------------------------------------- ScenarioExecutor: step results

\* "no element": getStepTarget returns null
NoElement == [src |-> 0, idx |-> 0]

\* the posts adapter.searchPosts returned at step k: element j is posts[j]
Posts(k, n) == [j \in 1..n |-> [src |-> k, idx |-> j - 1]]

\* a search step that stores what it found as comments too
PostsResultWithComments(k, n) ==
    [key |-> k, hasPosts |-> TRUE, posts |-> Posts(k, n),
     hasComments |-> TRUE, comments |-> Posts(k, n)]

\* a value of this.stepResults: { posts } (comments is never set by any step)
PostsResult(k, n) ==
    [key |-> k, hasPosts |-> TRUE, posts |-> Posts(k, n),
     hasComments |-> FALSE, comments |-> <<>>]

\* Map.set(key, value): an existing key keeps its place, a new key goes last
MapSet(map, entry) ==
    IF \E i \in DOMAIN map : map[i].key = entry.key
    THEN [i \in DOMAIN map |-> IF map[i].key = entry.key THEN entry ELSE map[i]]
    ELSE Append(map, entry)

\* the loop over this.stepResults.entries(), from entry i on
RECURSIVE ScanEntries(_, _, _, _)
ScanEntries(map, i, stepNum, target) ==
    IF i > Len(map) THEN NoElement
    ELSE IF map[i].key >= stepNum THEN NoElement
    ELSE IF target.kind = "search_results" /\ map[i].hasPosts
              /\ target.index < Len(map[i].posts)
         THEN map[i].posts[target.index + 1]
    ELSE IF target.kind = "comments" /\ map[i].hasComments
              /\ target.index < Len(map[i].comments)
         THEN map[i].comments[target.index + 1]
    ELSE ScanEntries(map, i + 1, stepNum, target)

\* the fallback loops over Array.from(this.stepResults.values()).reverse(), from entry i down
RECURSIVE ScanBack(_, _, _)
ScanBack(map, i, isComment) ==
    IF i < 1 THEN NoElement
    ELSE IF ~isComment /\ map[i].hasPosts /\ Len(map[i].posts) > 0 THEN map[i].posts[1]
    ELSE IF isComment /\ map[i].hasComments /\ Len(map[i].comments) > 0
         THEN map[i].comments[1]
    ELSE ScanBack(map, i - 1, isComment)

getStepTarget(map, step, isComment) ==
    LET explicit == IF step.target.kind \in {"search_results", "comments"}
                    THEN ScanEntries(map, 1, step.step, step.target)
                    ELSE NoElement
    IN  IF explicit # NoElement THEN explicit
        ELSE ScanBack(map, Len(map), isComment)

NoRun == [phase |-> "none", i |-> 0, stepResults |-> <<>>, log |-> <<>>]

\* --------------------------------------------------------------------- Init

IdleW == [pc |-> "idle", job |-> 0, profile |-> 0, browser |-> 0, ctx |-> FALSE,
          adapter |-> FALSE, err |-> "none", elapsed |-> 0,
          opened |-> FALSE, stopped |-> FALSE, touched |-> <<>>]

IdleX == [pc |-> "idle", job |-> 0, browser |-> 0]

NoGet == [latest |-> 0, latestStatus |-> "none", ret |-> 0,
          retStatus |-> "none", threw |-> FALSE]

NoAttempt == [end |-> "none", sid |-> 0, status |-> "none", original |-> "none",
              raised |-> "none", opened |-> FALSE, stopped |-> FALSE, logged |-> TRUE]

Init ==
    /\ gologinToken \in BOOLEAN
    /\ today = 0
    /\ \E k \in 0..Min2(MaxPrior, MAX_SESSIONS_PER_DAY) :
         sessions = [i \in 1..k |-> PriorSession]
    /\ profiles = <<>>
    /\ usedOrder = <<>>
    /\ sessionQueue = <<>>
    /\ scenarioQueue = <<>>
    /\ api = [pc |-> "idle", last |-> "none"]
    /\ w = IdleW
    /\ x = IdleX
    /\ lastGet = NoGet
    /\ lastAttempt = NoAttempt
    /\ scenarios = <<>>
    /\ req = NoReq
    /\ run = NoRun
    /\ interactions = <<>>

\* -------------------------------------------------------------- environment

\* midnight passes; CURRENT_DATE is read by checkDailyLimit and by the INSERT only
NextDay ==
    /\ today < MaxDay
    /\ api.pc \in {"idle", "insert"} \/ w.pc \in {"ss_check", "ss_insert"}
    /\ today' = today + 1
    /\ UNCHANGED <<gologinToken, sessions, profiles, usedOrder, sessionQueue,
                   scenarioQueue, api, w, x, lastGet, lastAttempt>>
    /\ UNCHANGED flowVars

\* a Session job waits in the queue (or in its backoff delay) before it is taken
QueueDelay ==
    /\ w.pc = "idle"
    /\ Waiting(sessionQueue) # {}
    /\ \E i \in Waiting(sessionQueue) : sessions[sessionQueue[i].sid].age < MaxQueueDelay
    /\ sessions' = Elapse(sessions, sessionQueue, MaxQueueDelay)
    /\ UNCHANGED <<gologinToken, today, profiles, usedOrder, sessionQueue,
                   scenarioQueue, api, w, x, lastGet, lastAttempt>>
    /\ UNCHANGED flowVars

\* ---------------------------------------------- POST /api/sessions/trigger

\* createSession: checkDailyLimit
ApiCheck ==
    /\ api.pc = "idle"
    /\ IF LimitReached(sessions, today)
       THEN api' = [pc |-> "done", last |-> "quota"]
       ELSE api' = [api EXCEPT !.pc = "insert"]
    /\ UNCHANGED <<gologinToken, today, sessions, profiles, usedOrder, sessionQueue,
                   scenarioQueue, w, x, lastGet, lastAttempt>>
    /\ UNCHANGED flowVars

\* createSession: INSERT; then addSessionJob
ApiInsert ==
    /\ api.pc = "insert"
    /\ sessions' = Append(sessions, NewSession(today))
    /\ sessionQueue' = addSessionJob(sessionQueue, Len(sessions) + 1)
    /\ api' = [pc |-> "done", last |-> "created"]
    /\ UNCHANGED <<gologinToken, today, profiles, usedOrder, scenarioQueue,
                   w, x, lastGet, lastAttempt>>
    /\ UNCHANGED flowVars

\* ------------------------------------------- SessionWorker.processSession

AttemptEnded(kind, sid, ss, raised, stopped) ==
    [end |-> kind, sid |-> sid, status |-> ss[sid].status, original |-> w.err,
     raised |-> raised, opened |-> w.opened, stopped |-> stopped, logged |-> TRUE]

Throw(e) == [w EXCEPT !.pc = "catch", !.err = e]

\* the worker takes a job; the token check precedes the try block
SwTake ==
    /\ w.pc = "idle"
    /\ \E i \in Waiting(sessionQueue) :
         LET sid == sessionQueue[i].sid
         IN  IF ~gologinToken
             THEN /\ sessionQueue' = JobThrew(JobTaken(sessionQueue, i), i)
                  /\ lastAttempt' = [end |-> "threw", sid |-> sid,
                                     status |-> sessions[sid].status,
                                     original |-> "token", raised |-> "token",
                                     opened |-> FALSE, stopped |-> FALSE,
                                     logged |-> TRUE]
                  /\ w' = w
             ELSE /\ sessionQueue' = JobTaken(sessionQueue, i)
                  /\ w' = [IdleW EXCEPT !.pc = "ss_check", !.job = sid]
                  /\ lastAttempt' = NoAttempt
    /\ lastGet' = NoGet
    /\ UNCHANGED <<gologinToken, today, sessions, profiles, usedOrder,
                   scenarioQueue, api, x>>
    /\ UNCHANGED flowVars

\* startSession: createSession: checkDailyLimit
SwCheck ==
    /\ w.pc = "ss_check"
    /\ w' = IF LimitReached(sessions, today) THEN Throw("quota")
            ELSE [w EXCEPT !.pc = "ss_insert"]
    /\ UNCHANGED <<gologinToken, today, sessions, profiles, usedOrder, sessionQueue,
                   scenarioQueue, api, x, lastGet, lastAttempt>>
    /\ UNCHANGED flowVars

\* startSession: createSession: INSERT
SwInsert ==
    /\ w.pc = "ss_insert"
    /\ sessions' = Append(sessions, NewSession(today))
    /\ w' = [w EXCEPT !.pc = "ss_acquire"]
    /\ UNCHANGED <<gologinToken, today, profiles, usedOrder, sessionQueue,
                   scenarioQueue, api, x, lastGet, lastAttempt>>
    /\ UNCHANGED flowVars

\* startSession: getValidProfileForUser, updateLastUsed
SwAcquire ==
    /\ w.pc = "ss_acquire"
    /\ \E o \in getValidProfileForUser(profiles) :
         /\ profiles' = o.profiles
         /\ lastGet' = GetRecord(profiles, o)
         /\ IF o.threw
            THEN /\ w' = Throw("create")
                 /\ usedOrder' = usedOrder
            ELSE /\ w' = [w EXCEPT !.pc = "ss_open", !.profile = o.ret,
                                    !.touched = Append(w.touched, o.ret)]
                 /\ usedOrder' = updateLastUsed(usedOrder, o.ret)
    /\ UNCHANGED <<gologinToken, today, sessions, sessionQueue, scenarioQueue,
                   api, x, lastAttempt>>
    /\ UNCHANGED flowVars

\* startSession: openBrowserSession; on failure markProfileAsExpired and
\* getValidProfileForUser again
SwOpen ==
    /\ w.pc = "ss_open"
    /\ \/ /\ w' = [w EXCEPT !.pc = "auth", !.browser = w.profile, !.opened = TRUE,
                            !.ctx = TRUE, !.adapter = TRUE]
          /\ UNCHANGED <<profiles, lastGet>>
       \/ LET ps == markProfileAsExpired(profiles, w.profile)
          IN  \E o \in getValidProfileForUser(ps) :
                /\ profiles' = o.profiles
                /\ lastGet' = GetRecord(ps, o)
                /\ w' = IF o.threw THEN Throw("create")
                        ELSE [w EXCEPT !.pc = "ss_open2", !.profile = o.ret]
    /\ UNCHANGED <<gologinToken, today, sessions, usedOrder, sessionQueue,
                   scenarioQueue, api, x, lastAttempt>>
    /\ UNCHANGED flowVars

\* startSession: the second openBrowserSession, then updateLastUsed
SwOpen2 ==
    /\ w.pc = "ss_open2"
    /\ \/ /\ w' = Throw("open")
          /\ usedOrder' = usedOrder
       \/ /\ w' = [Throw("db") EXCEPT !.browser = w.profile, !.opened = TRUE]
          /\ usedOrder' = usedOrder
       \/ /\ w' = [w EXCEPT !.pc = "auth", !.browser = w.profile, !.opened = TRUE,
                            !.ctx = TRUE, !.adapter = TRUE,
                            !.touched = Append(w.touched, w.profile)]
          /\ usedOrder' = updateLastUsed(usedOrder, w.profile)
    /\ UNCHANGED <<gologinToken, today, sessions, profiles, sessionQueue,
                   scenarioQueue, api, x, lastGet, lastAttempt>>
    /\ UNCHANGED flowVars

\* loggedGoto, isLoggedIn, login
SwAuth ==
    /\ w.pc = "auth"
    /\ \/ w' = [w EXCEPT !.pc = "dispatch"]
       \/ \E e \in {"login", "suspended"} : w' = Throw(e)
    /\ UNCHANGED <<gologinToken, today, sessions, profiles, usedOrder, sessionQueue,
                   scenarioQueue, api, x, lastGet, lastAttempt>>
    /\ UNCHANGED flowVars

\* listScenarios({platform}) ORDER BY created_at DESC; addScenarioJob for each
RECURSIVE enqueueScenarios(_, _, _)
enqueueScenarios(q, sid, n) ==
    IF n = 0 THEN q ELSE enqueueScenarios(addScenarioJob(q, sid, n), sid, n - 1)

\* a processSession that queues the scenarios before the login check
SwDispatchBeforeAuth ==
    /\ w.pc = "auth"
    /\ scenarioQueue' = enqueueScenarios(scenarioQueue, w.job, NumScenarios)
    /\ w' = [w EXCEPT !.pc = "monitor", !.elapsed = 0]
    /\ UNCHANGED <<gologinToken, today, sessions, profiles, usedOrder, sessionQueue,
                   api, x, lastGet, lastAttempt>>
    /\ UNCHANGED flowVars

SwDispatch ==
    /\ w.pc = "dispatch"
    /\ scenarioQueue' = enqueueScenarios(scenarioQueue, w.job, NumScenarios)
    /\ w' = [w EXCEPT !.pc = "monitor", !.elapsed = 0]
    /\ UNCHANGED <<gologinToken, today, sessions, profiles, usedOrder, sessionQueue,
                   api, x, lastGet, lastAttempt>>
    /\ UNCHANGED flowVars

\* a monitor loop without the while condition: it is left by the break only
MonitorLeavesOnBreakOnly ==
    /\ w.elapsed >= MIN_SESSION_DURATION
    /\ LET durationCheck == checkSessionDuration(sessions, w.job)
       IN  ~durationCheck.isValid
           /\ durationCheck.currentDuration >= durationCheck.maxDuration

\* one evaluation of the while condition and of the loop body
MonitorLeaves ==
    \/ ~(w.elapsed < MAX_SESSION_DURATION)
    \/ /\ w.elapsed >= MIN_SESSION_DURATION
       /\ LET durationCheck == checkSessionDuration(sessions, w.job)
          IN  ~durationCheck.isValid
              /\ durationCheck.currentDuration >= durationCheck.maxDuration

SwMonitor ==
    /\ w.pc = "monitor"
    /\ IF MonitorLeaves
       THEN /\ w' = [w EXCEPT !.pc = "end"]
            /\ sessions' = sessions
       ELSE /\ w' = [w EXCEPT !.elapsed = w.elapsed + 1]
            /\ sessions' = Elapse(sessions, sessionQueue, 1)
    /\ UNCHANGED <<gologinToken, today, profiles, usedOrder, sessionQueue,
                   scenarioQueue, api, x, lastGet, lastAttempt>>
    /\ UNCHANGED flowVars

\* endSession(sessionId, 'completed')
SwEnd ==
    /\ w.pc = "end"
    /\ \/ /\ sessions' = endSession(sessions, w.job, "completed")
          /\ w' = [w EXCEPT !.pc = "metrics"]
       \/ /\ sessions' = sessions
          /\ w' = Throw("db")
    /\ UNCHANGED <<gologinToken, today, profiles, usedOrder, sessionQueue,
                   scenarioQueue, api, x, lastGet, lastAttempt>>
    /\ UNCHANGED flowVars

\* calculateSessionMetrics, completeSession(sessionContext), finally adapter.close()
SwMetrics ==
    /\ w.pc = "metrics"
    /\ \/ /\ w' = IdleW
          /\ sessionQueue' = JobReturned(sessionQueue, JobIndex(sessionQueue, w.job))
          /\ lastAttempt' = AttemptEnded("returned", w.job, sessions, "none", TRUE)
       \/ /\ w' = Throw("metrics")
          /\ UNCHANGED <<sessionQueue, lastAttempt>>
    /\ UNCHANGED <<gologinToken, today, sessions, profiles, usedOrder,
                   scenarioQueue, api, x, lastGet>>
    /\ UNCHANGED flowVars

\* the catch block: endSession(sessionId, 'failed'), completeSession(sessionContext, error),
\* throw error; then finally adapter.close()
SwCatch ==
    /\ w.pc = "catch"
    /\ \E dbOk \in BOOLEAN, logOk \in BOOLEAN :
         LET ss == IF dbOk THEN endSession(sessions, w.job, "failed") ELSE sessions
             complete == dbOk /\ w.ctx
             ban == /\ complete /\ logOk /\ banIndicator(w.err)
                    /\ w.profile > 0 /\ gologinToken
             stop == complete \/ w.adapter
         IN  /\ sessions' = ss
             /\ profiles' = IF ban THEN markProfileAsBanned(profiles, w.profile)
                            ELSE profiles
             /\ lastAttempt' = [AttemptEnded("threw", w.job, ss,
                                             IF dbOk THEN w.err ELSE "db", stop)
                                EXCEPT !.logged = ~complete \/ logOk]
    /\ sessionQueue' = JobThrew(sessionQueue, JobIndex(sessionQueue, w.job))
    /\ w' = IdleW
    /\ UNCHANGED <<gologinToken, today, usedOrder, scenarioQueue, api, x, lastGet>>
    /\ UNCHANGED flowVars

\* the worker stops renewing the job's lock (it died): the job is stalled
SwStall ==
    /\ w.pc # "idle"
    /\ sessionQueue' = JobStalled(sessionQueue, JobIndex(sessionQueue, w.job))
    /\ lastAttempt' = AttemptEnded("stalled", w.job, sessions, "none", FALSE)
    /\ w' = IdleW
    /\ UNCHANGED <<gologinToken, today, sessions, profiles, usedOrder,
                   scenarioQueue, api, x, lastGet>>
    /\ UNCHANGED flowVars

\* --------------------------------------- ScenarioExecutor.executeScenario

\* the worker takes a job: token check, profile lookup, openBrowserSession
XwTake ==
    /\ x.pc = "idle"
    /\ \E i \in Waiting(scenarioQueue) :
         LET q == JobTaken(scenarioQueue, i)
             p == selectActiveProfile(profiles, usedOrder)
         IN  IF ~gologinToken \/ p = 0
             THEN /\ scenarioQueue' = JobThrew(q, i)
                  /\ x' = x
             ELSE \/ /\ scenarioQueue' = q
                     /\ x' = [pc |-> "run", job |-> i, browser |-> p]
                  \/ /\ scenarioQueue' = JobThrew(q, i)
                     /\ x' = x
    /\ UNCHANGED <<gologinToken, today, sessions, profiles, usedOrder, sessionQueue,
                   api, w, lastGet, lastAttempt>>
    /\ UNCHANGED flowVars

\* login and the steps of the flow; finally adapter.close()
XwFinish ==
    /\ x.pc = "run"
    /\ \/ scenarioQueue' = JobReturned(scenarioQueue, x.job)
       \/ scenarioQueue' = JobThrew(scenarioQueue, x.job)
    /\ x' = IdleX
    /\ UNCHANGED <<gologinToken, today, sessions, profiles, usedOrder, sessionQueue,
                   api, w, lastGet, lastAttempt>>
    /\ UNCHANGED flowVars

\* the worker stops renewing the job's lock (it died, and this.stepResults with it)
XwStall ==
    /\ x.pc = "run"
    /\ scenarioQueue' = JobStalled(scenarioQueue, x.job)
    /\ x' = IdleX
    /\ run' = IF run.phase = "steps" THEN [NoRun EXCEPT !.phase = "stalled"] ELSE run
    /\ UNCHANGED <<gologinToken, today, sessions, profiles, usedOrder, sessionQueue,
                   api, w, lastGet, lastAttempt, scenarios, req, interactions>>

\* -------------------------------- ScenarioService.createScenario / updateScenario

\* a createScenario call arrives
RequestCreate ==
    /\ req.op = "none"
    /\ \E n \in 0..MaxFlowLen : \E f \in FlowsOfLen(n) :
         req' = [op |-> "create", id |-> 0, hasFlow |-> TRUE, flow |-> f,
                 result |-> "pending"]
    /\ UNCHANGED <<gologinToken, today, sessions, profiles, usedOrder, sessionQueue,
                   scenarioQueue, api, w, x, lastGet, lastAttempt,
                   scenarios, run, interactions>>

\* an updateScenario call arrives, with or without params.interactionFlow
RequestUpdate ==
    /\ req.op = "none"
    /\ \E id \in 1..(Len(scenarios) + 1) :
         \/ \E n \in 0..MaxFlowLen : \E f \in FlowsOfLen(n) :
              req' = [op |-> "update", id |-> id, hasFlow |-> TRUE, flow |-> f,
                      result |-> "pending"]
         \/ req' = [op |-> "update", id |-> id, hasFlow |-> FALSE, flow |-> <<>>,
                    result |-> "pending"]
    /\ UNCHANGED <<gologinToken, today, sessions, profiles, usedOrder, sessionQueue,
                   scenarioQueue, api, w, x, lastGet, lastAttempt,
                   scenarios, run, interactions>>

\* createScenario: validateInteractionFlow, then INSERT INTO scenarios
createScenario ==
    /\ req.op = "create" /\ req.result = "pending"
    /\ IF ~validateInteractionFlow(req.flow)
       THEN /\ req' = [req EXCEPT !.result = "rejected"]
            /\ scenarios' = scenarios
       ELSE \/ /\ scenarios' = Append(scenarios, req.flow)
               /\ req' = [req EXCEPT !.result = "created"]
            \/ /\ scenarios' = scenarios
               /\ req' = [req EXCEPT !.result = "error"]
    /\ UNCHANGED <<gologinToken, today, sessions, profiles, usedOrder, sessionQueue,
                   scenarioQueue, api, w, x, lastGet, lastAttempt, run, interactions>>

\* updateScenario: getScenario, validateInteractionFlow if a flow is given, then UPDATE
updateScenario ==
    /\ req.op = "update" /\ req.result = "pending"
    /\ IF req.id \notin DOMAIN scenarios
       THEN /\ req' = [req EXCEPT !.result = "notfound"]
            /\ scenarios' = scenarios
       ELSE IF req.hasFlow /\ ~validateInteractionFlow(req.flow)
       THEN /\ req' = [req EXCEPT !.result = "rejected"]
            /\ scenarios' = scenarios
       ELSE IF ~req.hasFlow
       THEN /\ req' = [req EXCEPT !.result = "updated"]
            /\ scenarios' = scenarios
       ELSE \/ /\ scenarios' = [scenarios EXCEPT ![req.id] = req.flow]
               /\ req' = [req EXCEPT !.result = "updated"]
            \/ /\ scenarios' = scenarios
               /\ req' = [req EXCEPT !.result = "error"]
    /\ UNCHANGED <<gologinToken, today, sessions, profiles, usedOrder, sessionQueue,
                   scenarioQueue, api, w, x, lastGet, lastAttempt, run, interactions>>

\* ------------------------------------------ ScenarioExecutor: the step loop

\* what one step did: the log entry, the posts a search stored (-1: nothing stored),
\* whether recordInteraction inserted a row and incremented the count, and whether
\* an exception was raised inside executeStep's try block
Outcome(step, target, dispatched, success, posts, row, inc, thrown) ==
    [entry |-> [step |-> step.step, action |-> step.action, target |-> target,
                dispatched |-> dispatched, success |-> success, thrown |-> thrown],
     posts |-> posts, row |-> row, inc |-> inc]

\* a step handler that records a failed Interaction before it throws
ThrownAfterRecord(step, target) == Outcome(step, target, FALSE, FALSE, -1, TRUE, TRUE, TRUE)

\* step handler threw before any platform action was dispatched
ThrownEarly(step, target) == Outcome(step, target, FALSE, FALSE, -1, FALSE, FALSE, TRUE)

\* adapter.<action>(...) returned result; then sessionWorker.recordInteraction(...):
\* getSession or the INSERT throws, or incrementActionCount throws, or all succeed
Dispatch(step, target) ==
    UNION {{ Outcome(step, target, TRUE, success, -1, TRUE, TRUE, FALSE),
             Outcome(step, target, TRUE, success, -1, FALSE, FALSE, TRUE),
             Outcome(step, target, TRUE, success, -1, TRUE, FALSE, TRUE) }
           : success \in BOOLEAN}

executeSearchStep(step) ==
    IF ~step.query THEN {ThrownEarly(step, NoElement)}
    ELSE {Outcome(step, NoElement, FALSE, FALSE, n, FALSE, FALSE, FALSE) : n \in 0..MaxPosts}

\* executeLikeStep and executeReportStep
executeLikeStep(map, step) ==
    LET target == getStepTarget(map, step, FALSE)
    IN  IF target = NoElement THEN {ThrownEarly(step, target)}
        ELSE Dispatch(step, target)

\* executeCommentStep (isComment = FALSE) and executeReplyStep (isComment = TRUE)
executeCommentStep(map, step, isComment) ==
    LET target == getStepTarget(map, step, isComment)
    IN  IF target = NoElement THEN {ThrownEarly(step, target)}
        ELSE IF ~step.generate_comment THEN {ThrownEarly(step, target)}
        ELSE {ThrownEarly(step, target)} \cup Dispatch(step, target)

\* the switch of executeStep
StepOutcomes(map, step) ==
    CASE step.action = "search" -> executeSearchStep(step)
      [] step.action \in {"like", "report"} -> executeLikeStep(map, step)
      [] step.action = "comment" -> executeCommentStep(map, step, FALSE)
      [] step.action = "reply" -> executeCommentStep(map, step, TRUE)
      [] OTHER -> {Outcome(step, NoElement, FALSE, FALSE, -1, FALSE, FALSE, FALSE)}

\* an executeStep that lets the exception out
executeStepRethrows(o) == o.entry.thrown

\* executeStep's catch: the error is logged and nothing leaves the step
executeStepThrows(o) == FALSE

\* INSERT INTO interactions (...)
Interaction(sid, entry) ==
    [session_id |-> sid, action_type |-> entry.action, success |-> entry.success,
     step_sequence |-> entry.step]

\* UPDATE sessions SET actions_count = actions_count + 1
incrementActionCount(ss, sid) == [ss EXCEPT ![sid].actions = ss[sid].actions + 1]

\* the flow of the job's scenario
JobFlow == scenarios[scenarioQueue[x.job].scenario]

\* loggedGoto, isLoggedIn, login; then this.stepResults.clear()
XwLogin ==
    /\ x.pc = "run" /\ run.phase # "steps"
    /\ \/ /\ run' = [phase |-> "steps", i |-> 1, stepResults |-> <<>>, log |-> <<>>]
          /\ UNCHANGED <<scenarioQueue, x>>
       \/ /\ run' = [NoRun EXCEPT !.phase = "threw"]
          /\ scenarioQueue' = JobThrew(scenarioQueue, x.job)
          /\ x' = IdleX
    /\ UNCHANGED <<gologinToken, today, sessions, profiles, usedOrder, sessionQueue,
                   api, w, lastGet, lastAttempt, scenarios, req, interactions>>

\* one iteration of: for (const step of flow) await this.executeStep(step, ...)
XwStep ==
    /\ x.pc = "run" /\ run.phase = "steps" /\ run.i <= Len(JobFlow)
    /\ LET step == JobFlow[run.i]
           sid == scenarioQueue[x.job].sid
       IN  \E o \in StepOutcomes(run.stepResults, step) :
             /\ interactions' = IF o.row THEN Append(interactions, Interaction(sid, o.entry))
                                ELSE interactions
             /\ sessions' = IF o.inc THEN incrementActionCount(sessions, sid) ELSE sessions
             /\ IF executeStepThrows(o)
                THEN /\ run' = [run EXCEPT !.phase = "threw", !.stepResults = <<>>,
                                           !.log = Append(run.log, o.entry)]
                     /\ scenarioQueue' = JobThrew(scenarioQueue, x.job)
                     /\ x' = IdleX
                ELSE /\ run' = [run EXCEPT
                                  !.i = run.i + 1,
                                  !.log = Append(run.log, o.entry),
                                  !.stepResults =
                                      IF o.posts >= 0
                                      THEN MapSet(run.stepResults, PostsResult(step.step, o.posts))
                                      ELSE run.stepResults]
                     /\ UNCHANGED <<scenarioQueue, x>>
    /\ UNCHANGED <<gologinToken, today, profiles, usedOrder, sessionQueue,
                   api, w, lastGet, lastAttempt, scenarios, req>>

\* an executeScenario whose finally block leaves this.stepResults as it is
XwDoneKeepsResults ==
    /\ x.pc = "run" /\ run.phase = "steps" /\ run.i > Len(JobFlow)
    /\ run' = [run EXCEPT !.phase = "returned"]
    /\ scenarioQueue' = JobReturned(scenarioQueue, x.job)
    /\ x' = IdleX
    /\ UNCHANGED <<gologinToken, today, sessions, profiles, usedOrder, sessionQueue,
                   api, w, lastGet, lastAttempt, scenarios, req, interactions>>

\* the loop is over: snapshot (errors caught), return; finally adapter.close(),
\* this.stepResults.clear()
XwDone ==
    /\ x.pc = "run" /\ run.phase = "steps" /\ run.i > Len(JobFlow)
    /\ run' = [run EXCEPT !.phase = "returned", !.stepResults = <<>>]
    /\ scenarioQueue' = JobReturned(scenarioQueue, x.job)
    /\ x' = IdleX
    /\ UNCHANGED <<gologinToken, today, sessions, profiles, usedOrder, sessionQueue,
                   api, w, lastGet, lastAttempt, scenarios, req, interactions>>

\* --------------------------------------------------------------------- Spec

\* the trigger route and the Session worker
NextSession ==
    \/ NextDay \/ QueueDelay
    \/ ApiCheck \/ ApiInsert
    \/ SwTake \/ SwCheck \/ SwInsert \/ SwAcquire \/ SwOpen \/ SwOpen2 \/ SwAuth
    \/ SwDispatch \/ SwMonitor \/ SwEnd \/ SwMetrics \/ SwCatch \/ SwStall

SpecSession == Init /\ [][NextSession]_vars

\* both workers
Next ==
    \/ ApiCheck \/ ApiInsert
    \/ SwTake \/ SwCheck \/ SwInsert \/ SwAcquire \/ SwOpen \/ SwOpen2 \/ SwAuth
    \/ SwDispatch \/ SwMonitor \/ SwEnd \/ SwMetrics \/ SwCatch \/ SwStall
    \/ XwTake \/ XwFinish \/ XwStall

Spec == Init /\ [][Next]_vars

\* ScenarioService alone: one stored scenario, one create or update call
InitFlow ==
    /\ gologinToken = TRUE
    /\ today = 0
    /\ sessions = <<>>
    /\ profiles = <<>>
    /\ usedOrder = <<>>
    /\ sessionQueue = <<>>
    /\ scenarioQueue = <<>>
    /\ api = [pc |-> "idle", last |-> "none"]
    /\ w = IdleW
    /\ x = IdleX
    /\ lastGet = NoGet
    /\ lastAttempt = NoAttempt
    /\ scenarios = <<DefaultFlow>>
    /\ req = NoReq
    /\ run = NoRun
    /\ interactions = <<>>

NextFlow == RequestCreate \/ RequestUpdate \/ createScenario \/ updateScenario

SpecFlow == InitFlow /\ [][NextFlow]_vars

\* the Scenario worker on one Scenario job: the Session worker has opened the
\* account's profile, dispatched the job and sits in its monitor loop; the stored
\* scenario is any flow validateInteractionFlow accepts
InitScenario ==
    /\ gologinToken = TRUE
    /\ today = 0
    /\ sessions = <<NewSession(0), NewSession(0)>>
    /\ profiles = <<[status |-> "ACTIVE"]>>
    /\ usedOrder = <<1>>
    /\ sessionQueue = JobTaken(addSessionJob(<<>>, 1), 1)
    /\ scenarioQueue = addScenarioJob(<<>>, 1, 1)
    /\ api = [pc |-> "done", last |-> "created"]
    /\ w = [IdleW EXCEPT !.pc = "monitor", !.job = 1, !.profile = 1, !.browser = 1,
                         !.ctx = TRUE, !.adapter = TRUE, !.opened = TRUE,
                         !.touched = <<1>>]
    /\ x = IdleX
    /\ lastGet = NoGet
    /\ lastAttempt = NoAttempt
    /\ \E n \in 0..MaxFlowLen : \E f \in FlowsOfLen(n) :
         validateInteractionFlow(f) /\ scenarios = <<f>>
    /\ req = NoReq
    /\ run = NoRun
    /\ interactions = <<>>

NextScenario == XwTake \/ XwLogin \/ XwStep \/ XwDone

SpecScenario == InitScenario /\ [][NextScenario]_vars

\* the same with the Scenario job stalling and being run again
NextScenarioRetry == XwTake \/ XwLogin \/ XwStep \/ XwDone \/ XwStall

SpecScenarioRetry == InitScenario /\ [][NextScenarioRetry]_vars

\* the Scenario worker on one Scenario job while the Session worker monitors and
\* finalizes the session
NextInterleaved ==
    \/ XwTake \/ XwLogin \/ XwStep \/ XwDone
    \/ SwMonitor \/ SwEnd \/ SwMetrics \/ SwCatch

SpecInterleaved == InitScenario /\ [][NextInterleaved]_vars

\* the Session worker from the start of its monitor loop on: the session of the
\* job was started any time before (queue delay, earlier attempts)
InitMonitor ==
    /\ gologinToken = TRUE
    /\ today = 0
    /\ \E a \in 0..AgeCap : sessions = <<[NewSession(0) EXCEPT !.age = a], NewSession(0)>>
    /\ profiles = <<[status |-> "ACTIVE"]>>
    /\ usedOrder = <<1>>
    /\ sessionQueue = JobTaken(addSessionJob(<<>>, 1), 1)
    /\ scenarioQueue = enqueueScenarios(<<>>, 1, NumScenarios)
    /\ api = [pc |-> "done", last |-> "created"]
    /\ w = [IdleW EXCEPT !.pc = "monitor", !.job = 1, !.profile = 1, !.browser = 1,
                         !.ctx = TRUE, !.adapter = TRUE, !.opened = TRUE,
                         !.touched = <<1>>]
    /\ x = IdleX
    /\ lastGet = NoGet
    /\ lastAttempt = NoAttempt
    /\ scenarios = <<>>
    /\ req = NoReq
    /\ run = NoRun
    /\ interactions = <<>>

NextMonitor == SwMonitor \/ SwEnd \/ SwMetrics \/ SwCatch

\* every poll sleep returns and the loop goes on
SpecMonitor == InitMonitor /\ [][NextMonitor]_vars /\ WF_vars(SwMonitor)

\* ------------------------------------------------------------------- claims

Counted(d) ==
    {i \in DOMAIN sessions :
        sessions[i].day = d /\ sessions[i].status \in {"running", "completed"}}

AllJobs == {sessionQueue[i] : i \in DOMAIN sessionQueue}
           \cup {scenarioQueue[i] : i \in DOMAIN scenarioQueue}

\* C1: while the Session worker holds the browser session it opened on an
\* identity, the Scenario worker has no browser session open on that identity.
C1_OneBrowserPerIdentity ==
    ~(w.browser # 0 /\ x.pc = "run" /\ x.browser = w.browser)

\* C2: a session's status changes only from running to a terminal status; a
\* session in a terminal status never changes status again.
C2_StatusNeverReversed ==
    [][\A i \in DOMAIN sessions :
          sessions[i].status # "running" => sessions'[i].status = sessions[i].status]_vars

\* C3: createSession (called by the trigger route and by startSession) throws the
\* quota error and inserts nothing exactly when the account has 3 or more
\* sessions of the current day in status running or completed at the time of its
\* check, failed sessions not being counted; otherwise it inserts exactly one row
\* with status running and action count 0; no other step inserts a session.
C3_CreateSession ==
    [][/\ (api.pc = "idle" /\ api'.pc # "idle") =>
            /\ sessions' = sessions
            /\ (api'.pc = "done" /\ api'.last = "quota")
                   <=> Cardinality(Counted(today)) >= 3
            /\ api'.pc = "insert" <=> Cardinality(Counted(today)) < 3
       /\ (w.pc = "ss_check" /\ w'.pc \in {"ss_insert", "catch"}) =>
            /\ sessions' = sessions
            /\ (w'.pc = "catch" /\ w'.err = "quota")
                   <=> Cardinality(Counted(today)) >= 3
            /\ w'.pc = "ss_insert" <=> Cardinality(Counted(today)) < 3
       /\ ((api.pc = "insert" /\ api'.pc = "done")
              \/ (w.pc = "ss_insert" /\ w'.pc = "ss_acquire")) =>
            /\ Len(sessions') = Len(sessions) + 1
            /\ \A i \in DOMAIN sessions : sessions'[i] = sessions[i]
            /\ sessions'[Len(sessions')].status = "running"
            /\ sessions'[Len(sessions')].actions = 0
            /\ sessions'[Len(sessions')].day = today
       /\ Len(sessions') # Len(sessions) =>
            \/ api.pc = "insert" /\ api'.pc = "done"
            \/ w.pc = "ss_insert" /\ w'.pc = "ss_acquire"]_vars

\* C3 witness: startSession's createSession has thrown the quota error while a
\* failed session of the day exists beside the three counted ones.
C3_Witness ==
    /\ w.pc = "catch" /\ w.err = "quota"
    /\ \E i \in DOMAIN sessions :
         sessions[i].day = today /\ sessions[i].status = "failed"
    /\ Cardinality(Counted(today)) = 3

\* C4: on every day the account has at most 3 sessions in status running or
\* completed.
C4_AtMostThreePerDay ==
    \A d \in 0..MaxDay : Cardinality(Counted(d)) <= 3

\* C5: when a Session job attempt ends by raising an error, the session named in
\* the job has status failed at that moment and the error raised is the original
\* error.
C5_FailedWhenAttemptThrows ==
    lastAttempt.end = "threw" =>
        /\ lastAttempt.status = "failed"
        /\ lastAttempt.raised = lastAttempt.original

\* C6: when a Session job attempt that opened a browser session ends (by
\* returning or by raising), the browser session's stop function has been invoked.
C6_BrowserReleased ==
    (lastAttempt.end \in {"returned", "threw"} /\ lastAttempt.opened)
        => lastAttempt.stopped

\* C7: when the record getValidProfileForUser looks up is BANNED or DELETED and
\* the call returns, it returns another record, created by this call, with
\* status ACTIVE.
C7_BannedNeverReturned ==
    (lastGet.latestStatus \in {"BANNED", "DELETED"} /\ ~lastGet.threw /\ lastGet.ret # 0) =>
        /\ lastGet.ret # lastGet.latest
        /\ lastGet.ret = lastGet.latest + 1
        /\ lastGet.retStatus = "ACTIVE"
        /\ profiles[lastGet.latest].status \in {"BANNED", "DELETED"}

\* C7 witness: a call that found a BANNED record has returned.
C7_Witness ==
    lastGet.latestStatus = "BANNED" /\ lastGet.ret # 0

\* C8: every record getValidProfileForUser returns has status ACTIVE.
C8_ReturnedIsActive ==
    lastGet.ret # 0 => lastGet.retStatus = "ACTIVE"

\* C9: after dispatch the Scenario queue holds one job for the session per stored
\* scenario.
C9_OneJobPerScenario ==
    w.pc = "monitor" =>
        \A n \in 1..NumScenarios :
            \E i \in DOMAIN scenarioQueue :
                scenarioQueue[i].sid = w.job /\ scenarioQueue[i].scenario = n

JobWithinPolicy(j) ==
    /\ j.attemptsMade <= attempts
    /\ j.runs <= attempts + maxStalledCount
    /\ j.attemptsMade = attempts => j.state = "failed"

FailedJobsStay(q, q2) ==
    \A i \in DOMAIN q : q[i].state = "failed" => q2[i] = q[i]

C11_MonitorEndsInsideWindow ==
    [][(/\ SwMonitor
        /\ w.elapsed >= MIN_SESSION_DURATION
        /\ checkSessionDuration(sessions, w.job).isValid)
       => w'.pc = "end"]_vars

\* C12: every completed session has a recorded duration between the minimum and
\* the maximum session duration.
C12_CompletedDurationInRange ==
    \A i \in DOMAIN sessions :
        sessions[i].status = "completed"
            => /\ sessions[i].duration >= MIN_SESSION_DURATION
               /\ sessions[i].duration <= MAX_SESSION_DURATION

\* the flow the Scenario job executes
StoredFlow == scenarios[1]

\* C13: an exception raised inside a step never leaves the step: the steps of the
\* flow are attempted one by one, each exactly once and in the order of the flow,
\* a run that returned attempted all of them, and no run fails once the step
\* loop has started.
C13_StepIsolation ==
    /\ Len(run.log) <= Len(StoredFlow)
    /\ \A k \in DOMAIN run.log :
         /\ run.log[k].step = StoredFlow[k].step
         /\ run.log[k].action = StoredFlow[k].action
    /\ run.phase = "steps" => run.i = Len(run.log) + 1
    /\ run.phase = "returned" => Len(run.log) = Len(StoredFlow)
    /\ run.phase = "threw" => run.log = <<>>
    /\ \A i \in DOMAIN scenarioQueue :
         scenarioQueue[i].state = "failed" => run.log = <<>>

\* C13 witness: a run returned although a step that was not the last one raised
\* an exception.
C13_Witness ==
    /\ run.phase = "returned"
    /\ \E k \in DOMAIN run.log : k < Len(run.log) /\ run.log[k].thrown

\* C14: every step whose platform action was dispatched and failed has exactly one
\* Interaction with success = false and that step's sequence number.
C14_FailedStepRecordedOnce ==
    \A k \in DOMAIN run.log :
        (run.log[k].dispatched /\ ~run.log[k].success)
            => Cardinality({j \in DOMAIN interactions :
                   /\ interactions[j].step_sequence = run.log[k].step
                   /\ ~interactions[j].success}) = 1

\* entries of the map with a step number below stepNum that have an element at the
\* target's index
Candidates(map, stepNum, target) ==
    {i \in DOMAIN map :
        /\ map[i].key < stepNum
        /\ \/ target.kind = "search_results" /\ map[i].hasPosts
                /\ target.index < Len(map[i].posts)
           \/ target.kind = "comments" /\ map[i].hasComments
                /\ target.index < Len(map[i].comments)}

\* the element the lowest-numbered candidate holds, or the most recent fallback
LowestNumberedTarget(map, step, isComment) ==
    LET c == Candidates(map, step.step, step.target)
    IN  IF c = {} THEN ScanBack(map, Len(map), isComment)
        ELSE LET i == CHOOSE i \in c : \A j \in c : map[i].key <= map[j].key
             IN  IF step.target.kind = "search_results"
                 THEN map[i].posts[step.target.index + 1]
                 ELSE map[i].comments[step.target.index + 1]

\* C15: a step with an explicit target kind[i] resolves to element i of the
\* lowest-numbered earlier step that has one, else to the most recent fallback.
C15_ExplicitTargetLowestStep ==
    (run.phase = "steps" /\ run.log # <<>>)
        => LET k == Len(run.log)
               step == StoredFlow[k]
           IN  (step.action # "search" /\ step.target.kind \in {"search_results", "comments"})
                   => run.log[k].target =
                        LowestNumberedTarget(run.stepResults, step, step.action = "reply")

\* C16: the steps of an accepted flow are executed in strictly ascending
\* step-number order.
C16_AscendingStepOrder ==
    \A k \in DOMAIN run.log :
        k < Len(run.log) => run.log[k].step < run.log[k + 1].step

\* the step numbers of the flow are exactly 1..N, each once
Numbered1toN(flow) ==
    \A k \in 1..Len(flow) : Cardinality({i \in DOMAIN flow : flow[i].step = k}) = 1

\* validateInteractionFlow was called for the request
Validated == req.hasFlow /\ (req.op = "create" \/ req.id \in DOMAIN scenarios)

\* C17: a flow whose step numbers are not exactly 1..N is rejected, a flow numbered
\* 1..N is not rejected for its numbering, and a rejected createScenario or
\* updateScenario stores nothing.
C17_ValidateNumbering ==
    [][(req.result = "pending" /\ req'.result # "pending")
       => /\ (Validated /\ ~Numbered1toN(req.flow)) => req'.result = "rejected"
          /\ (Numbered1toN(req.flow) /\ SchemaOk(req.flow) /\ DependenciesOk(req.flow))
                => req'.result # "rejected"
          /\ req'.result = "rejected" => scenarios' = scenarios]_vars

\* C17 witness: an update was rejected for a flow of two steps with a gap or a
\* duplicate in its numbering, and the stored scenario is still the original one.
C17_Witness ==
    /\ req.op = "update" /\ req.result = "rejected"
    /\ Len(req.flow) = 2 /\ req.flow[1].step = 1 /\ req.flow[2].step # 2
    /\ SchemaOk(req.flow) /\ DependenciesOk(req.flow)
    /\ scenarios = <<DefaultFlow>>

\* C18: once a session is finalized, finalizing it again changes neither its
\* status nor its duration nor its action count.
C18_FinalizeIdempotent ==
    [][\A i \in DOMAIN sessions :
         sessions[i].status # "running"
            => /\ sessions'[i].status = sessions[i].status
               /\ sessions'[i].duration = sessions[i].duration
               /\ sessions'[i].actions = sessions[i].actions]_vars

\* C19: when the write of the session-error log entry fails, finalize still does
\* what it does otherwise: for an error that indicates a ban, the profile is
\* marked BANNED.
C19_LogFailureChangesNothing ==
    [][(/\ w.pc = "catch" /\ w.ctx /\ w.profile > 0 /\ gologinToken
        /\ banIndicator(w.err)
        /\ lastAttempt'.end = "threw" /\ lastAttempt'.raised = w.err
        /\ ~lastAttempt'.logged)
       => profiles'[w.profile].status = "BANNED"]_vars

\* C20: a session's action count equals the number of its Interaction rows.
C20_ActionCountMatchesRows ==
    \A sid \in DOMAIN sessions :
        sessions[sid].actions =
            Cardinality({j \in DOMAIN interactions : interactions[j].session_id = sid})

\* C21: over the whole life of a Scenario job, retries and re-runs after a stall
\* included, each step of the scenario has at most one Interaction row.
C21_OneRowPerStep ==
    \A k \in 1..MaxFlowLen :
        Cardinality({j \in DOMAIN interactions : interactions[j].step_sequence = k}) <= 1

\* C22: when the first open in startSession fails on identity P, P is EXPIRED and
\* the one further open is attempted on an identity different from P whose status
\* is ACTIVE; after the second open no other open follows.
C22_RetryOnFreshIdentity ==
    [][/\ (w.pc = "ss_open" /\ w'.pc = "ss_open2")
          => /\ profiles'[w.profile].status = "EXPIRED"
             /\ w'.profile # w.profile
             /\ profiles'[w'.profile].status = "ACTIVE"
       /\ w.pc = "ss_open2" => w'.pc \in {"ss_open2", "auth", "catch", "idle"}]_vars

\* C23: an attempt that acquired an identity and is finalized with an error
\* (endSession('failed') succeeded and completeSession ran with the error) leaves
\* the identity BANNED exactly when the error carries a ban indicator; an attempt
\* that is finalized without an error leaves the identity's status as it was.
C23_BannedIffIndicator ==
    [][/\ (/\ w.pc = "catch" /\ w.ctx /\ w.profile > 0
           /\ lastAttempt'.end = "threw" /\ lastAttempt'.raised = w.err)
          => (profiles'[w.profile].status = "BANNED" <=> banIndicator(w.err))
       /\ (w.pc = "metrics" /\ lastAttempt'.end = "returned")
          => profiles' = profiles]_vars

\* C24: no identity record goes from EXPIRED, BANNED or DELETED to ACTIVE, and a
\* record that appears is ACTIVE.
C24_NeverResurrected ==
    [][/\ \A p \in DOMAIN profiles :
            profiles[p].status # "ACTIVE" => profiles'[p].status # "ACTIVE"
       /\ \A p \in DOMAIN profiles' :
            p \notin DOMAIN profiles => profiles'[p].status = "ACTIVE"]_vars

\* C24 witness: an identity record is EXPIRED or BANNED and a record created after
\* it is ACTIVE.
C24_Witness ==
    \E p, q \in DOMAIN profiles :
        /\ p < q
        /\ profiles[p].status \in {"EXPIRED", "BANNED"}
        /\ profiles[q].status = "ACTIVE"

\* C25: once an identity record is EXPIRED or BANNED its status never changes.
C25_ExpiredBannedTerminal ==
    [][\A p \in DOMAIN profiles :
         profiles[p].status \in {"EXPIRED", "BANNED"}
            => profiles'[p].status = profiles[p].status]_vars

\* the first element of the highest-numbered entry below stepNum that has a
\* non-empty list of the kind asked for, or no element
HighestNumberedFallback(map, stepNum, isComment) ==
    LET c == {i \in DOMAIN map :
                /\ map[i].key < stepNum
                /\ IF isComment THEN map[i].hasComments /\ Len(map[i].comments) > 0
                   ELSE map[i].hasPosts /\ Len(map[i].posts) > 0}
    IN  IF c = {} THEN NoElement
        ELSE LET i == CHOOSE i \in c : \A j \in c : map[i].key >= map[j].key
             IN  IF isComment THEN map[i].comments[1] ELSE map[i].posts[1]

\* C26: a step without an explicit target, or whose explicit target matches
\* nothing, resolves to the first post (first comment for reply) of the
\* highest-numbered earlier step that has one, or to no target.
C26_FallbackHighestStep ==
    (run.phase = "steps" /\ run.log # <<>>)
        => LET k == Len(run.log)
               step == StoredFlow[k]
           IN  (/\ step.action # "search"
                /\ \/ step.target.kind \notin {"search_results", "comments"}
                   \/ Candidates(run.stepResults, step.step, step.target) = {})
                   => run.log[k].target =
                        HighestNumberedFallback(run.stepResults, step.step,
                                                step.action = "reply")

\* what the claim requires of one step
MeetsRequirements(step) ==
    /\ step.action = "search" => step.query
    /\ step.action \in {"like", "comment", "reply", "report"}
         => (step.target # NoTarget \/ step.entity_type)
    /\ step.action = "reply" => step.entity_type

\* C27: a validated flow with a step that misses a required field is rejected, and
\* a flow numbered 1..N whose steps all have their required fields is not.
C27_ValidateRequirements ==
    [][(req.result = "pending" /\ req'.result # "pending" /\ Validated)
       => /\ (\E i \in DOMAIN req.flow : ~MeetsRequirements(req.flow[i]))
                => req'.result = "rejected"
          /\ (/\ Numbered1toN(req.flow)
              /\ \A i \in DOMAIN req.flow : MeetsRequirements(req.flow[i]))
                => req'.result # "rejected"]_vars

\* C27 witness: a created flow numbered 1, 2 was rejected only because its reply
\* step has no entity type.
C27_Witness ==
    /\ req.op = "create" /\ req.result = "rejected"
    /\ Len(req.flow) = 2 /\ Numbered1toN(req.flow)
    /\ MeetsRequirements(req.flow[1])
    /\ req.flow[2].action = "reply" /\ ~req.flow[2].entity_type
    /\ req.flow[2].target # NoTarget

\* the runtime precondition of the step fails
PreconditionFails(map, step) ==
    \/ step.action = "search" /\ ~step.query
    \/ step.action # "search"
          /\ getStepTarget(map, step, step.action = "reply") = NoElement
    \/ step.action \in {"comment", "reply"} /\ ~step.generate_comment

\* C28: a step whose runtime precondition fails dispatches no platform action,
\* records no Interaction, leaves the action count and the step results as they
\* were.
C28_FailedPreconditionNoEffect ==
    [][(/\ x.pc = "run" /\ run.phase = "steps" /\ run'.phase = "steps"
        /\ run'.i = run.i + 1
        /\ PreconditionFails(run.stepResults, StoredFlow[run.i]))
       => /\ interactions' = interactions
          /\ sessions' = sessions
          /\ run'.stepResults = run.stepResults
          /\ ~run'.log[Len(run'.log)].dispatched]_vars

\* C28 witness: in one run a like step found no target and a comment step with a
\* target had generate_comment false; nothing was recorded.
C28_Witness ==
    /\ \E k \in DOMAIN run.log :
         run.log[k].action = "like" /\ run.log[k].thrown /\ run.log[k].target = NoElement
    /\ \E k \in DOMAIN run.log :
         /\ run.log[k].action = "comment" /\ run.log[k].thrown
         /\ run.log[k].target # NoElement /\ ~StoredFlow[k].generate_comment
    /\ interactions = <<>>

\* C29: for every session, checkSessionDuration reports isValid exactly when the
\* elapsed time since the session's start lies between the minimum and the maximum
\* duration, returns that elapsed time with the two limits, and a monitor poll
\* (which calls it) changes no column of any session.
C29_CheckSessionDuration ==
    /\ [](\A sid \in DOMAIN sessions :
            LET r == checkSessionDuration(sessions, sid)
            IN  /\ r.isValid <=> (/\ sessions[sid].age >= MIN_SESSION_DURATION
                                   /\ sessions[sid].age <= MAX_SESSION_DURATION)
                /\ r.currentDuration = sessions[sid].age
                /\ r.minDuration = MIN_SESSION_DURATION
                /\ r.maxDuration = MAX_SESSION_DURATION)
    /\ [][SwMonitor
            => \A sid \in DOMAIN sessions :
                 sessions'[sid] = [sessions[sid] EXCEPT !.age = sessions'[sid].age]]_vars

\* C29 witness: the monitor loop has passed its minimum and polls a session whose
\* elapsed time is exactly the maximum duration, which the check reports valid.
C29_Witness ==
    /\ w.pc = "monitor" /\ w.elapsed >= MIN_SESSION_DURATION
    /\ w.elapsed < MAX_SESSION_DURATION
    /\ sessions[w.job].age = MAX_SESSION_DURATION
    /\ checkSessionDuration(sessions, w.job).isValid

\* C30: adding a job whose key is already in the queue leaves one job with that
\* key, carrying the payload of the latest enqueue (the dispatch loop enqueues
\* scenarios NumScenarios down to 1 under one key, so the latest payload is
\* scenario 1).
C30_LatestPayloadKept ==
    \A i \in DOMAIN scenarioQueue : scenarioQueue[i].scenario = 1

\* startSession is over: it returned or it threw
StartSessionOver == w.pc \notin {"idle", "ss_check", "ss_insert", "ss_acquire", "ss_open", "ss_open2"}

\* C31: once startSession is over, every identity it called updateLastUsed on is
\* the identity its browser session was opened on, it made at most one such call,
\* and exactly one when it returned.
C31_LastUsedOncePerOpen ==
    StartSessionOver =>
        /\ \A i \in DOMAIN w.touched : w.opened /\ w.touched[i] = w.browser
        /\ Len(w.touched) <= 1
        /\ w.ctx => Len(w.touched) = 1

\* the steps this execution has run so far that were searches and did not throw
SearchesRun == {run.log[j].step : j \in {k \in DOMAIN run.log :
                   run.log[k].action = "search" /\ ~run.log[k].thrown}}

\* C32: this.stepResults is empty when the first step of an execution starts and
\* empty whenever no executeScenario is running (it returned, threw or its worker
\* died); each of its entries was stored by a step of the running execution, and
\* so was every element a step of the running execution resolved as its target.
C32_StepResultsTransient ==
    /\ (run.phase = "steps" /\ run.i = 1) => run.stepResults = <<>>
    /\ x.pc = "idle" => run.stepResults = <<>>
    /\ \A i \in DOMAIN run.stepResults : run.stepResults[i].key \in SearchesRun
    /\ \A j \in DOMAIN run.log :
          run.log[j].target # NoElement
            => \E k \in 1..(j - 1) :
                 /\ run.log[k].step = run.log[j].target.src
                 /\ run.log[k].action = "search" /\ ~run.log[k].thrown

\* C32 witness: a Scenario job running for the second time has resolved a target.
C32_Witness ==
    /\ x.pc = "run" /\ run.phase = "steps"
    /\ scenarioQueue[x.job].runs >= 2
    /\ \E j \in DOMAIN run.log : run.log[j].target # NoElement

\* the phase of an attempt at a position of processSession: 1 acquiring the
\* identity and opening the browser, 2 authenticating, 3 dispatching scenarios,
\* 4 monitoring, 5 and 6 finalizing
PhaseRank(pc) ==
    CASE pc \in {"ss_check", "ss_insert", "ss_acquire", "ss_open", "ss_open2"} -> 1
      [] pc = "auth" -> 2
      [] pc = "dispatch" -> 3
      [] pc = "monitor" -> 4
      [] pc = "end" -> 5
      [] pc = "metrics" -> 6
      [] OTHER -> 0

\* C33: within an attempt the phases follow one another in the order acquired and
\* opened, authenticated, dispatched, monitoring, finalized; a Scenario job is
\* added only by the dispatch phase, for the attempt's session, and that phase is
\* entered only from a successful authentication; a session is marked completed
\* only by the attempt that has left its monitor loop.
C33_PhaseOrder ==
    [][/\ (PhaseRank(w.pc) > 0 /\ PhaseRank(w'.pc) > 0)
            => (PhaseRank(w'.pc) = PhaseRank(w.pc) \/ PhaseRank(w'.pc) = PhaseRank(w.pc) + 1)
       /\ (PhaseRank(w'.pc) > 1 /\ w.pc # w'.pc) => PhaseRank(w.pc) = PhaseRank(w'.pc) - 1
       /\ Len(scenarioQueue') > Len(scenarioQueue)
            => /\ w.pc = "dispatch"
               /\ \A i \in DOMAIN scenarioQueue' \ DOMAIN scenarioQueue :
                     scenarioQueue'[i].sid = w.job
       /\ (w'.pc = "end" /\ w.pc # "end") => (w.pc = "monitor" /\ MonitorLeaves)
       /\ \A sid \in DOMAIN sessions :
             (sessions[sid].status # "completed" /\ sessions'[sid].status = "completed")
               => (w.pc = "end" /\ sid = w.job)]_vars

\* C33 witness: an attempt has gone through every phase: its session is marked
\* completed and its Scenario job is in the queue.
C33_Witness ==
    /\ w.pc = "metrics"
    /\ sessions[w.job].status = "completed"
    /\ \E i \in DOMAIN scenarioQueue : scenarioQueue[i].sid = w.job

\* C34: the account never has two ACTIVE profile records, and when a record is
\* created no record that existed before is ACTIVE any more.
C34_AtMostOneActive ==
    /\ [](Cardinality(ActiveIds(profiles)) <= 1)
    /\ [][Len(profiles') > Len(profiles)
            => \A i \in DOMAIN profiles : profiles'[i].status # "ACTIVE"]_vars

\* C34 witness: a replacement record was created: the account has a record that is
\* not ACTIVE and a later one that is.
C34_Witness ==
    /\ Len(profiles) >= 2
    /\ profiles[Len(profiles)].status = "ACTIVE"
    /\ profiles[1].status \in {"EXPIRED", "BANNED"}

\* C35: a Session row is inserted only by the trigger route, never by the Session
\* worker, and once the Session job of a triggered run has finished no session is
\* left in status running.
C35_WorkerCreatesNoSession ==
    /\ [][Len(sessions') > Len(sessions) => (api.pc = "insert" /\ w'.pc = w.pc)]_vars
    /\ []((\A i \in DOMAIN sessionQueue : sessionQueue[i].state \in {"completed", "failed"})
            => \A sid \in DOMAIN sessions : sessions[sid].status # "running")

\* C36: a step that inserts an Interaction row for a session, or increments its
\* action count, is taken only while that session is not completed or failed.
C36_NoActionAfterFinalize ==
    [][\A sid \in DOMAIN sessions :
         (\/ sessions'[sid].actions > sessions[sid].actions
          \/ /\ Len(interactions') > Len(interactions)
             /\ interactions'[Len(interactions')].session_id = sid)
           => sessions[sid].status \notin {"completed", "failed"}]_vars

\* C37: when the Scenario worker takes a Scenario job of a running session, its
\* profile query selects a record, and while the Session worker holds the browser
\* it opened for that session the record selected is the one that browser is on.
C37_SameIdentity ==
    [][\A i \in Waiting(scenarioQueue) :
         LET sid == scenarioQueue[i].sid
             p == selectActiveProfile(profiles, usedOrder)
         IN  (/\ x.pc = "idle"
              /\ scenarioQueue'[i].runs > scenarioQueue[i].runs
              /\ sessions[sid].status = "running")
               => /\ p # 0
                  /\ (w.job = sid /\ w.opened) => p = w.browser]_vars

C39_MonitorTerminates ==
    /\ (w.pc = "monitor") ~> (w.pc # "monitor")
    /\ [](w.pc = "monitor" => w.elapsed <= MAX_SESSION_DURATION)
    /\ [][(w.pc = "monitor" /\ w'.pc # "monitor")
            => /\ w'.pc = "end"
               /\ w.elapsed >= MIN_SESSION_DURATION
               /\ w.elapsed <= MAX_SESSION_DURATION]_vars

\* C39 witness: the loop is left at its last poll with the duration check still
\* valid (the session is exactly MAX_SESSION_DURATION minutes old).
C39_Witness ==
    /\ w.pc = "end"
    /\ w.elapsed = MAX_SESSION_DURATION
    /\ checkSessionDuration(sessions, w.job).isValid

====
